---- MODULE Spec2Model ----
(***************************************************************************)
(* Model of the Elo image voter: ImageManager (the catalog of rated        *)
(* images and the bounded match history), EloEngine (the rating update)    *)
(* and the handlers of EloVotingApp that change the manager's state.       *)
(*                                                                         *)
(* Numbers.  Python floats are modelled in fixed point: a rating is an     *)
(* integer number of thousandths of a point (1000.0 is 1000000), a result  *)
(* and an expected score are integers in thousandths (1.0 is 1000).        *)
(* Strings that the program only carries along (file paths, names) are     *)
(* strings; str(abs(hash(p))) is computed from a fixed hash table.         *)
(***************************************************************************)
EXTENDS Integers, Sequences, FiniteSets, TLC

(***************************************************************************)
(* Configuration / constants                                               *)
(***************************************************************************)
\* DEFAULT_ELO = 1000.0, in thousandths of a point.
DEFAULT_ELO == 1000000

\* K_FACTOR = 32.0.
K_FACTOR == 32

\* MATCH_HISTORY_LIMIT is 5000 in the program (line 48); the cut to the limit
\* is modelled as written and the limit is scaled down, so that histories
\* longer than the limit occur.
MATCH_HISTORY_LIMIT == 2

\* get_smart_pair keeps the 6 closest candidates.
TOP_K == 6

\* No item plays more than MaxCount matches before a reset or a removal
\* (the program's counters are unbounded).
MaxCount == 1

\* Python's None, for winner_id / loser_id and for return values.
None == "None"

\* The pair shown when no pair is shown (current_pair = None).
NoPair == << >>

\* The session file does not exist: os.path.exists(filename) is false.
NoFile == [exists |-> FALSE]

\* No record_match is running.
Idle == [at |-> "idle"]

(***************************************************************************)
(* Inputs                                                                  *)
(***************************************************************************)
\* The paths a caller passes to add_image.  The working directory is "/w":
\* "a.png" and "/w/a.png" name the same file.
Paths == {"/w/a.png", "a.png", "/w/b.png", "/w/c.png"}

\* result as passed to record_match, in thousandths: 1.0, 0.0, 0.5 and a
\* value that is none of the three.
Results == {1000, 0, 500, 700}

\* What datetime.datetime.utcnow() can return when a record is created.
Times == {1, 2}

\* os.path.abspath
AbsPath(path) == IF path = "a.png" THEN "/w/a.png" ELSE path

\* os.path.basename
BaseName(path) ==
    CASE path = "/w/a.png" -> "a.png"
      [] path = "a.png"    -> "a.png"
      [] path = "/w/b.png" -> "b.png"
      [] path = "/w/c.png" -> "c.png"
      [] path = "/w/d.png" -> "d.png"
      [] path = "/w/e.png" -> "e.png"
      [] path = "/w/f.png" -> "f.png"
      [] path = "/w/g.png" -> "g.png"
      [] path = "/w/h.png" -> "h.png"
      [] path = "/w/i.png" -> "i.png"
      [] path = "/w/j.png" -> "j.png"

\* hash() of an absolute path: any integer; two of the paths collide once
\* the sign is dropped.
Hash(absp) ==
    CASE absp = "/w/a.png" -> 3
      [] absp = "/w/b.png" -> -5
      [] absp = "/w/c.png" -> 5
      [] absp = "/w/d.png" -> 8
      [] absp = "/w/e.png" -> -13
      [] absp = "/w/f.png" -> 21
      [] absp = "/w/g.png" -> -34
      [] absp = "/w/h.png" -> 55
      [] absp = "/w/i.png" -> -89
      [] absp = "/w/j.png" -> 144

Abs(n) == IF n < 0 THEN -n ELSE n

\* ImageManager._make_id
MakeId(path) == ToString(Abs(Hash(AbsPath(path))))

\* Every id a caller can name: the ids of the paths and one id of no path.
Ids == {MakeId(p) : p \in Paths} \cup {"0"}

\* The paths of a larger catalog, for ranking(): four files, four ids.
RankPaths == {"/w/a.png", "/w/b.png", "/w/d.png", "/w/e.png"}

RankIds == {MakeId(p) : p \in RankPaths}

\* The files of a catalog large enough for get_smart_pair to leave candidates
\* out, in the order in which they are added: nine files, nine ids.
PairPaths ==
    <<"/w/a.png", "/w/b.png", "/w/d.png", "/w/e.png", "/w/f.png", "/w/g.png",
      "/w/h.png", "/w/i.png", "/w/j.png">>

(***************************************************************************)
(* State                                                                   *)
(***************************************************************************)
VARIABLES
    images,           \* ImageManager.images: the records in insertion order
    history,          \* ImageManager.history: MatchRecords, most recent first
    played,           \* for each entry of history, the {a_id, b_id} of its call
    current_pair,     \* EloVotingApp.current_pair: <<id, id>> or NoPair
    pair_mode_smart,  \* EloVotingApp.pair_mode_smart
    last,             \* the last call: its name and outcome
    disk,             \* the session file: NoFile, or what save_to_file wrote
    pc                \* where the running record_match is; Idle between calls

vars == <<images, history, played, current_pair, pair_mode_smart, last, disk, pc>>

(***************************************************************************)
(* Data classes                                                            *)
(***************************************************************************)
\* ImageRecord(id=uid, path=os.path.abspath(path), name=name); now is what
\* datetime.datetime.utcnow() returns to the default of added_at
ImageRecord(uid, path, name, now) ==
    [id |-> uid, path |-> path, name |-> name, rating |-> DEFAULT_ELO,
     wins |-> 0, losses |-> 0, draws |-> 0, matches |-> 0, added_at |-> now]

\* MatchRecord(winner_id=..., ...).  timestamp, which the program writes
\* once and never reads, is left out.
MatchRecord(winner_id, loser_id, draw, wrb, lrb, wra, lra) ==
    [winner_id |-> winner_id, loser_id |-> loser_id, draw |-> draw,
     winner_rating_before |-> wrb, loser_rating_before |-> lrb,
     winner_rating_after |-> wra, loser_rating_after |-> lra]

(***************************************************************************)
(* Dictionary helpers: images is a dict, kept here as the sequence of its  *)
(* values in insertion order.                                              *)
(***************************************************************************)
\* list(self.images.keys())
Keys(imgs) == [i \in 1..Len(imgs) |-> imgs[i].id]

\* uid in self.images
Has(imgs, uid) == \E i \in 1..Len(imgs) : imgs[i].id = uid

\* the position of uid in the dict
IndexOf(imgs, uid) == CHOOSE i \in 1..Len(imgs) : imgs[i].id = uid

\* self.images[uid]
Get(imgs, uid) == imgs[IndexOf(imgs, uid)]

\* del self.images[uid]
Del(imgs, uid) == SelectSeq(imgs, LAMBDA r : r.id # uid)

(***************************************************************************)
(* Elo engine                                                              *)
(***************************************************************************)
\* 100 * 10 ** (r / 400.0) at r = 600, 650, ..., 1400 points.
Pow10Knots ==
    <<3162, 4217, 5623, 7499, 10000, 13335, 17783, 23714, 31623, 42170,
      56234, 74989, 100000, 133352, 177828, 237137, 316228>>

\* 10 ** (r / 400.0), scaled by 100: read off Pow10Knots, linear between two
\* knots, r taken to a tenth of a point and kept within the table.
Pow10(r) ==
    LET t  == r \div 100
        c  == IF t < 6000 THEN 6000 ELSE IF t > 13999 THEN 13999 ELSE t
        k  == ((c - 6000) \div 500) + 1
        lo == Pow10Knots[k]
        hi == Pow10Knots[k + 1]
    IN  lo + (((hi - lo) * (c - (6000 + 500 * (k - 1)))) \div 500)

\* The range of a Python float (an IEEE double, largest value about
\* 1.797e308), in ratings: 10 ** (r / 400.0) raises OverflowError for r above
\* 400 * log10(1.797e308) = 123301.886 points, and q + q is inf for r above
\* 400 * log10(1.797e308 / 2) = 123181.474 points.
POW10_RAISES_ABOVE == 123301886

SUM_INF_ABOVE == 123181474

\* 10 ** (r_a / 400.0) or 10 ** (r_b / 400.0) raises OverflowError
ExpectedScoreRaises(r_a, r_b) ==
    r_a > POW10_RAISES_ABOVE \/ r_b > POW10_RAISES_ABOVE

\* qa + qb is inf.  qa + qb is at least twice the power of the mean rating,
\* so it is inf when the mean is above SUM_INF_ABOVE; for two equal ratings
\* that is exactly when it is.
SumIsInf(r_a, r_b) == r_a + r_b > 2 * SUM_INF_ABOVE

\* EloEngine.expected_score, in thousandths (rounded to nearest); 0 for
\* qa / inf
ExpectedScore(r_a, r_b) ==
    LET qa == Pow10(r_a)
        qb == Pow10(r_b)
    IN  IF SumIsInf(r_a, r_b) THEN 0
        ELSE IF qa + qb = 0 THEN 500
        ELSE ((1000 * qa) + ((qa + qb) \div 2)) \div (qa + qb)

\* EloEngine.update_ratings: <<new_ra, new_rb>>
UpdateRatings(ra, rb, result) ==
    LET ea == ExpectedScore(ra, rb)
        eb == ExpectedScore(rb, ra)
    IN  <<ra + K_FACTOR * (result - ea),
          rb + K_FACTOR * ((1000 - result) - eb)>>

(***************************************************************************)
(* ImageManager                                                            *)
(***************************************************************************)
\* The elements of s at the positions in keep, in order: what a list
\* comprehension with a filter builds.
Restrict(s, keep) ==
    LET F[i \in 0..Len(s)] ==
            IF i = 0 THEN << >>
            ELSE IF i \in keep THEN Append(F[i - 1], s[i]) ELSE F[i - 1]
    IN  F[Len(s)]

\* Mutant of AddImageImages: an id already present gets a fresh record.
AddImageImages_Overwrite(imgs, path, now) ==
    LET uid == MakeId(path)
        rec == ImageRecord(uid, AbsPath(path), BaseName(path), now)
    IN  IF Has(imgs, uid) THEN [imgs EXCEPT ![IndexOf(imgs, uid)] = rec]
        ELSE Append(imgs, rec)

\* add_image, past the os.path.exists check: the dict after the call
AddImageImages(imgs, path, now) ==
    LET uid == MakeId(path)
    IN  IF Has(imgs, uid) THEN imgs
        ELSE Append(imgs, ImageRecord(uid, AbsPath(path), BaseName(path), now))

\* add_image, past the os.path.exists check: the record returned
AddImageReturn(imgs, path, now) ==
    Get(AddImageImages(imgs, path, now), MakeId(path))

\* Mutant of KeptEntries: the filter tests winner_id alone.
KeptEntries_WinnerOnly(h, image_id) ==
    {i \in 1..Len(h) : h[i].winner_id # image_id}

\* remove_image: the positions of history that the filter keeps
KeptEntries(h, image_id) ==
    {i \in 1..Len(h) : h[i].winner_id # image_id /\ h[i].loser_id # image_id}

\* remove_image: self.history = [h for h in self.history if ...]
Purge(h, image_id) == Restrict(h, KeptEntries(h, image_id))

\* rec.<counter> += 1 on self.images[uid]
Add1(imgs, uid, counter) ==
    [imgs EXCEPT ![IndexOf(imgs, uid)][counter] = @ + 1]

\* rec.rating = r on self.images[uid]
SetRating(imgs, uid, r) == [imgs EXCEPT ![IndexOf(imgs, uid)].rating = r]

\* record_match: winner_id of the call
WinnerId(a_id, b_id, result) ==
    IF result = 1000 THEN a_id ELSE IF result = 0 THEN b_id ELSE None

\* record_match: loser_id of the call
LoserId(a_id, b_id, result) ==
    IF result = 1000 THEN b_id ELSE IF result = 0 THEN a_id ELSE None

\* Mutant of ApplyStats: the elif branch credits a again.
ApplyStats_ElifCopied(imgs, a_id, b_id, result) ==
    IF result = 1000 THEN Add1(Add1(imgs, a_id, "wins"), b_id, "losses")
    ELSE IF result = 0 THEN Add1(Add1(imgs, a_id, "wins"), b_id, "losses")
    ELSE Add1(Add1(imgs, a_id, "draws"), b_id, "draws")

\* Mutant of ApplyStats: the else branch forgets b.draws += 1.
ApplyStats_DrawOnlyA(imgs, a_id, b_id, result) ==
    IF result = 1000 THEN Add1(Add1(imgs, a_id, "wins"), b_id, "losses")
    ELSE IF result = 0 THEN Add1(Add1(imgs, b_id, "wins"), a_id, "losses")
    ELSE Add1(imgs, a_id, "draws")

\* record_match, "apply stats": the if / elif / else on result.  a and b are
\* self.images[a_id] and self.images[b_id]: one object when a_id = b_id, so
\* the statements are applied one after the other.
ApplyStats(imgs, a_id, b_id, result) ==
    IF result = 1000 THEN Add1(Add1(imgs, a_id, "wins"), b_id, "losses")
    ELSE IF result = 0 THEN Add1(Add1(imgs, b_id, "wins"), a_id, "losses")
    ELSE Add1(Add1(imgs, a_id, "draws"), b_id, "draws")

\* Mutant of ApplyMatches: b.matches += 1 is forgotten.
ApplyMatches_OnlyA(imgs, a_id, b_id) == Add1(imgs, a_id, "matches")

\* record_match: a.matches += 1; b.matches += 1
ApplyMatches(imgs, a_id, b_id) ==
    Add1(Add1(imgs, a_id, "matches"), b_id, "matches")

\* record_match: a.rating = new_a; b.rating = new_b
ApplyRatings(imgs, a_id, b_id, new) ==
    SetRating(SetRating(imgs, a_id, new[1]), b_id, new[2])

\* record_match, both ids present: the dict after the call
RecordMatchImages(imgs, a_id, b_id, result) ==
    LET new == UpdateRatings(Get(imgs, a_id).rating, Get(imgs, b_id).rating, result)
    IN  ApplyRatings(ApplyMatches(ApplyStats(imgs, a_id, b_id, result), a_id, b_id),
                     a_id, b_id, new)

\* Mutant of RecordMatchEntry: the two after fields are new_a and new_b
\* whoever won.
RecordMatchEntry_AfterOfA(imgs, a_id, b_id, result) ==
    LET before_a  == Get(imgs, a_id).rating
        before_b  == Get(imgs, b_id).rating
        new       == UpdateRatings(before_a, before_b, result)
        winner_id == WinnerId(a_id, b_id, result)
        loser_id  == LoserId(a_id, b_id, result)
    IN  MatchRecord(
            winner_id, loser_id, result = 500,
            IF winner_id = a_id THEN before_a
                ELSE IF winner_id = b_id THEN before_b ELSE before_a,
            IF loser_id = b_id THEN before_b
                ELSE IF loser_id = a_id THEN before_a ELSE before_b,
            new[1], new[2])

\* record_match, both ids present: the MatchRecord it builds
RecordMatchEntry(imgs, a_id, b_id, result) ==
    LET before_a  == Get(imgs, a_id).rating
        before_b  == Get(imgs, b_id).rating
        new       == UpdateRatings(before_a, before_b, result)
        winner_id == WinnerId(a_id, b_id, result)
        loser_id  == LoserId(a_id, b_id, result)
    IN  MatchRecord(
            winner_id, loser_id, result = 500,
            IF winner_id = a_id THEN before_a
                ELSE IF winner_id = b_id THEN before_b ELSE before_a,
            IF loser_id = b_id THEN before_b
                ELSE IF loser_id = a_id THEN before_a ELSE before_b,
            IF winner_id = a_id THEN new[1]
                ELSE IF winner_id = b_id THEN new[2] ELSE new[1],
            IF loser_id = b_id THEN new[2]
                ELSE IF loser_id = a_id THEN new[1] ELSE new[2])

\* Mutant of PushHistory: the cut to the limit is forgotten.
PushHistory_NoCut(h, rec) == <<rec>> \o h

\* record_match: self.history.insert(0, rec) and the cut to the limit
PushHistory(h, rec) ==
    LET grown == <<rec>> \o h
    IN  IF Len(grown) > MATCH_HISTORY_LIMIT
        THEN SubSeq(grown, 1, MATCH_HISTORY_LIMIT)
        ELSE grown

\* Mutant of InsertByRating: equal ratings come out in reverse order.
InsertByRating_Unstable(s, r) ==
    LET n == Cardinality({j \in 1..Len(s) : s[j].rating > r.rating})
    IN  SubSeq(s, 1, n) \o <<r>> \o SubSeq(s, n + 1, Len(s))

\* sorted(..., reverse=True) is stable: r goes behind every record whose
\* rating is at least its own.
InsertByRating(s, r) ==
    LET n == Cardinality({j \in 1..Len(s) : s[j].rating >= r.rating})
    IN  SubSeq(s, 1, n) \o <<r>> \o SubSeq(s, n + 1, Len(s))

\* ImageManager.ranking
Ranking(imgs) ==
    LET F[i \in 0..Len(imgs)] ==
            IF i = 0 THEN << >> ELSE InsertByRating(F[i - 1], imgs[i])
    IN  F[Len(imgs)]

\* Mutant of GetRandomPair: the two ids are drawn with replacement.
GetRandomPair_WithReplacement(imgs) ==
    IF Len(imgs) < 2 THEN {}
    ELSE {<<imgs[i].id, imgs[j].id>> : i, j \in 1..Len(imgs)}

\* get_random_pair: every pair random.sample(ids, 2) can return; {} for None
GetRandomPair(imgs) ==
    IF Len(imgs) < 2 THEN {}
    ELSE {<<imgs[i].id, imgs[j].id>> : i, j \in 1..Len(imgs)} \
         {<<imgs[i].id, imgs[i].id>> : i \in 1..Len(imgs)}

\* candidates.sort(key=lambda x: x[0]) is stable: c goes behind every
\* candidate whose difference is at most its own.
InsertByDiff(s, c) ==
    LET n == Cardinality({j \in 1..Len(s) : s[j][1] <= c[1]})
    IN  SubSeq(s, 1, n) \o <<c>> \o SubSeq(s, n + 1, Len(s))

\* Mutant of Candidates: candidates.sort is forgotten.
Candidates_Unsorted(imgs, a_id) ==
    LET a     == Get(imgs, a_id)
        other == SelectSeq(imgs, LAMBDA r : r.id # a_id)
    IN  [i \in 1..Len(other) |->
            <<Abs(a.rating - other[i].rating), other[i].id>>]

\* get_smart_pair: the sorted candidates [(abs(a.rating - rating), i)] of a_id
Candidates(imgs, a_id) ==
    LET a     == Get(imgs, a_id)
        other == SelectSeq(imgs, LAMBDA r : r.id # a_id)
        F[i \in 0..Len(other)] ==
            IF i = 0 THEN << >>
            ELSE InsertByDiff(F[i - 1],
                              <<Abs(a.rating - other[i].rating), other[i].id>>)
    IN  F[Len(other)]

\* get_smart_pair: the pairs it can return with a_id as the first item
SmartPairsOf(imgs, a_id) ==
    LET candidates == Candidates(imgs, a_id)
        top_k == IF TOP_K < Len(candidates) THEN TOP_K ELSE Len(candidates)
    IN  {<<a_id, candidates[k][2]>> : k \in 1..top_k}

\* get_smart_pair: every pair it can return; {} for None
GetSmartPair(imgs) ==
    IF Len(imgs) < 2 THEN {}
    ELSE UNION {SmartPairsOf(imgs, imgs[i].id) : i \in 1..Len(imgs)}

(***************************************************************************)
(* Persistence: save_to_file / load_from_file.  A JSON value carries its   *)
(* own type, so a value is kept with its JSON type: what json.dump writes  *)
(* for a str, a number, a bool and None, and what json.load reads back.    *)
(* A JSON object is a record of such values, a document is the record of   *)
(* its sections, "images" being the list of (key, object) in file order.   *)
(***************************************************************************)
JsonStr(v) == [t |-> "string", v |-> v]

JsonNum(v) == [t |-> "number", v |-> v]

JsonBool(v) == [t |-> IF v THEN "true" ELSE "false"]

JsonNull == [t |-> "null"]

\* json.dump of an Optional[str]
JsonOpt(v) == IF v = None THEN JsonNull ELSE JsonStr(v)

\* json.load of one value
ToPy(j) ==
    CASE j.t = "null"  -> None
      [] j.t = "true"  -> TRUE
      [] j.t = "false" -> FALSE
      [] OTHER         -> j.v

\* ImageRecord.to_dict, as json.dump writes it
ImageToJson(rec) ==
    [id |-> JsonStr(rec.id), path |-> JsonStr(rec.path), name |-> JsonStr(rec.name),
     rating |-> JsonNum(rec.rating), wins |-> JsonNum(rec.wins),
     losses |-> JsonNum(rec.losses), draws |-> JsonNum(rec.draws),
     matches |-> JsonNum(rec.matches), added_at |-> JsonNum(rec.added_at)]

\* MatchRecord.to_dict, as json.dump writes it
MatchToJson(h) ==
    [winner_id |-> JsonOpt(h.winner_id), loser_id |-> JsonOpt(h.loser_id),
     draw |-> JsonBool(h.draw),
     winner_rating_before |-> JsonNum(h.winner_rating_before),
     loser_rating_before |-> JsonNum(h.loser_rating_before),
     winner_rating_after |-> JsonNum(h.winner_rating_after),
     loser_rating_after |-> JsonNum(h.loser_rating_after)]

\* save_to_file: data = {"images": {...}, "history": [...]}
SaveDoc(imgs, h) ==
    [images  |-> [i \in 1..Len(imgs) |-> <<imgs[i].id, ImageToJson(imgs[i])>>],
     history |-> [i \in 1..Len(h) |-> MatchToJson(h[i])]]

\* data.get(name, default)
Section(doc, name, default) ==
    IF name \in DOMAIN doc THEN doc[name] ELSE default

\* The fields of the dataclasses: ImageRecord's without a default, all of
\* ImageRecord's, and MatchRecord's (none of which has a default).
ImageRequired == {"id", "path", "name"}

ImageFields ==
    {"id", "path", "name", "rating", "wins", "losses", "draws", "matches",
     "added_at"}

MatchFields ==
    {"winner_id", "loser_id", "draw", "winner_rating_before",
     "loser_rating_before", "winner_rating_after", "loser_rating_after"}

\* ImageRecord(**rec) raises TypeError: a field without a default is
\* missing, or rec has a key that is no field.
ImageRaises(obj) ==
    ~(ImageRequired \subseteq DOMAIN obj) \/ ~(DOMAIN obj \subseteq ImageFields)

\* MatchRecord(**h) raises TypeError
MatchRaises(obj) == DOMAIN obj # MatchFields

\* rec.get(name) if present, else the default of the dataclass field
FieldOr(obj, name, default) ==
    IF name \in DOMAIN obj THEN ToPy(obj[name]) ELSE default

\* ImageRecord(**rec); now is what the default of added_at returns
ImageFromJson(obj, now) ==
    [id |-> ToPy(obj.id), path |-> ToPy(obj.path), name |-> ToPy(obj.name),
     rating   |-> FieldOr(obj, "rating", DEFAULT_ELO),
     wins     |-> FieldOr(obj, "wins", 0),
     losses   |-> FieldOr(obj, "losses", 0),
     draws    |-> FieldOr(obj, "draws", 0),
     matches  |-> FieldOr(obj, "matches", 0),
     added_at |-> FieldOr(obj, "added_at", now)]

\* MatchRecord(**h)
MatchFromJson(obj) ==
    MatchRecord(ToPy(obj.winner_id), ToPy(obj.loser_id), ToPy(obj.draw),
                ToPy(obj.winner_rating_before), ToPy(obj.loser_rating_before),
                ToPy(obj.winner_rating_after), ToPy(obj.loser_rating_after))

\* The first position of items at which ImageRecord(**rec) raises, or
\* Len(items) + 1 when none does.
FirstBadItem(items) ==
    LET bad == {i \in 1..Len(items) : ImageRaises(items[i][2])}
    IN  IF bad = {} THEN Len(items) + 1
        ELSE CHOOSE i \in bad : \A j \in bad : i <= j

\* dict[key] = rec: a key that is there keeps its place, a new key goes last
DictPut(imgs, rec) ==
    IF Has(imgs, rec.id) THEN [imgs EXCEPT ![IndexOf(imgs, rec.id)] = rec]
    ELSE Append(imgs, rec)

\* Mutant of LoadImages: self.images = {} is forgotten, the document is
\* merged into the dict that is there.
LoadImages_Merge(imgs, doc, now) ==
    LET items == Section(doc, "images", << >>)
        n     == FirstBadItem(items) - 1
        F[i \in 0..n] ==
            IF i = 0 THEN imgs
            ELSE DictPut(F[i - 1], ImageFromJson(items[i][2], now))
    IN  F[n]

\* load_from_file: self.images = {} and the loop that fills it, up to the
\* first ImageRecord(**rec) that raises.  imgs is the dict before the call.
\* (In the documents considered every object is stored under its own id.)
LoadImages(imgs, doc, now) ==
    LET items == Section(doc, "images", << >>)
        n     == FirstBadItem(items) - 1
        F[i \in 0..n] ==
            IF i = 0 THEN << >>
            ELSE DictPut(F[i - 1], ImageFromJson(items[i][2], now))
    IN  F[n]

\* load_from_file: an ImageRecord(**rec) raises
LoadItemRaises(doc) ==
    LET items == Section(doc, "images", << >>)
    IN  FirstBadItem(items) <= Len(items)

\* load_from_file: a MatchRecord(**h) raises
LoadEntryRaises(doc) ==
    LET entries == Section(doc, "history", << >>)
    IN  \E i \in 1..Len(entries) : MatchRaises(entries[i])

\* load_from_file: [MatchRecord(**h) for h in data.get("history", [])]
LoadHistory(doc) ==
    LET entries == Section(doc, "history", << >>)
    IN  [i \in 1..Len(entries) |-> MatchFromJson(entries[i])]

(***************************************************************************)
(* EloVotingApp                                                            *)
(***************************************************************************)
\* ui_next_pair: every value it can leave in current_pair
UiNextPair(imgs, smart) ==
    IF Len(imgs) < 2 THEN {NoPair}
    ELSE LET pairs == IF smart THEN GetSmartPair(imgs) ELSE GetRandomPair(imgs)
         IN  IF pairs = {} THEN {NoPair}
             ELSE pairs \cup {<<p[2], p[1]>> : p \in pairs}

\* ui_reset_ratings: the loop over self.im.images.values()
ResetRecords(imgs) ==
    [i \in 1..Len(imgs) |->
        [imgs[i] EXCEPT !.rating = DEFAULT_ELO, !.wins = 0, !.losses = 0,
                        !.draws = 0, !.matches = 0]]

(***************************************************************************)
(* The calls                                                               *)
(***************************************************************************)
\* What last holds after a call: op returned ret (<< >> for None, a record
\* as <<record>>) or raised.
Call(op, ret, raised) == [op |-> op, ret |-> ret, raised |-> raised]

Init ==
    /\ images = << >>
    /\ history = << >>
    /\ played = << >>
    /\ current_pair = NoPair
    /\ pair_mode_smart = TRUE
    /\ last = Call("init", << >>, "")
    /\ disk = NoFile
    /\ pc = Idle

\* ImageManager.add_image(path); exists is os.path.exists(path)
AddImage(path, exists, now) ==
    /\ images' = IF exists THEN AddImageImages(images, path, now) ELSE images
    /\ last' = Call("add_image",
                    IF exists THEN <<AddImageReturn(images, path, now)>> ELSE << >>,
                    "")
    /\ UNCHANGED <<history, played, current_pair, pair_mode_smart, disk, pc>>

\* ImageManager.remove_image(image_id)
RemoveImage(image_id) ==
    /\ IF Has(images, image_id)
       THEN /\ images' = Del(images, image_id)
            /\ history' = Purge(history, image_id)
            /\ played' = Restrict(played, KeptEntries(history, image_id))
       ELSE UNCHANGED <<images, history, played>>
    /\ last' = Call("remove_image", << >>, "")
    /\ UNCHANGED <<current_pair, pair_mode_smart, disk, pc>>

\* Mutant of RecordMatchRaise: the check comes after a.matches += 1.
RecordMatchRaise_Late(a_id, b_id) ==
    /\ images' = IF Has(images, a_id) THEN Add1(images, a_id, "matches") ELSE images
    /\ last' = Call("record_match", << >>, "KeyError")
    /\ UNCHANGED <<history, played, current_pair, pair_mode_smart, disk, pc>>

\* record_match: raise KeyError("Image id not found"), first statement
RecordMatchRaise(a_id, b_id) ==
    /\ last' = Call("record_match", << >>, "KeyError")
    /\ UNCHANGED <<images, history, played, current_pair, pair_mode_smart, disk, pc>>

\* ImageManager.record_match(a_id, b_id, result)
RecordMatch(a_id, b_id, result) ==
    IF ~Has(images, a_id) \/ ~Has(images, b_id)
    THEN RecordMatchRaise(a_id, b_id)
    ELSE /\ Get(images, a_id).matches < MaxCount
         /\ Get(images, b_id).matches < MaxCount
         /\ images' = RecordMatchImages(images, a_id, b_id, result)
         /\ history' = PushHistory(history, RecordMatchEntry(images, a_id, b_id, result))
         /\ played' = PushHistory(played, {a_id, b_id})
         /\ last' = Call("record_match", << >>, "")
         /\ UNCHANGED <<current_pair, pair_mode_smart, disk, pc>>

\* record_match statement by statement.  While the call runs pc holds where
\* it stands, its arguments, and the catalog and the history it started
\* from (before_a, before_b, new_a and new_b are computed from them).
Running(at, a_id, b_id, result) ==
    [at |-> at, a_id |-> a_id, b_id |-> b_id, result |-> result,
     images0 |-> images, history0 |-> history]

\* a and b are the records read at lines 183-184: a statement on a record
\* that is still in the dict changes the dict.
BothLive == Has(images, pc.a_id) /\ Has(images, pc.b_id)

\* record_match, lines 180-189: the check of the ids, a, b, before_a,
\* before_b, new_a, new_b
RecordMatchBegin(a_id, b_id, result) ==
    IF ~Has(images, a_id) \/ ~Has(images, b_id)
    THEN RecordMatchRaise(a_id, b_id)
    ELSE /\ Get(images, a_id).matches < MaxCount
         /\ Get(images, b_id).matches < MaxCount
         /\ pc' = Running("stats", a_id, b_id, result)
         /\ UNCHANGED <<images, history, played, current_pair, pair_mode_smart,
                        last, disk>>

\* record_match, lines 192-203: apply stats
StepStats ==
    /\ pc.at = "stats"
    /\ images' = IF BothLive
                 THEN ApplyStats(images, pc.a_id, pc.b_id, pc.result)
                 ELSE images
    /\ pc' = [pc EXCEPT !.at = "matches"]
    /\ UNCHANGED <<history, played, current_pair, pair_mode_smart, last, disk>>

\* record_match, lines 205-206: a.matches += 1; b.matches += 1
StepMatches ==
    /\ pc.at = "matches"
    /\ images' = IF BothLive THEN ApplyMatches(images, pc.a_id, pc.b_id)
                 ELSE images
    /\ pc' = [pc EXCEPT !.at = "ratings"]
    /\ UNCHANGED <<history, played, current_pair, pair_mode_smart, last, disk>>

\* record_match, lines 207-208: a.rating = new_a; b.rating = new_b
StepRatings ==
    /\ pc.at = "ratings"
    /\ images' =
        IF BothLive
        THEN ApplyRatings(images, pc.a_id, pc.b_id,
                          UpdateRatings(Get(pc.images0, pc.a_id).rating,
                                        Get(pc.images0, pc.b_id).rating,
                                        pc.result))
        ELSE images
    /\ pc' = [pc EXCEPT !.at = "record"]
    /\ UNCHANGED <<history, played, current_pair, pair_mode_smart, last, disk>>

\* record_match, lines 210-222: the MatchRecord, the insert and the cut
StepRecord ==
    /\ pc.at = "record"
    /\ history' = PushHistory(history,
                              RecordMatchEntry(pc.images0, pc.a_id, pc.b_id,
                                               pc.result))
    /\ played' = PushHistory(played, {pc.a_id, pc.b_id})
    /\ last' = Call("record_match", << >>, "")
    /\ pc' = Idle
    /\ UNCHANGED <<images, current_pair, pair_mode_smart, disk>>

\* Mutant of Dispatch: a callback is started while another one runs.
Dispatch_Reentrant == TRUE

\* root.mainloop(): every call is made from a callback of the one Tk event
\* loop, which starts a callback when the one before it has returned.
Dispatch == pc = Idle

\* EloEngine.update_ratings(ra, rb, result)
UpdateRatingsCall(ra, rb, result) ==
    /\ last' = IF ExpectedScoreRaises(ra, rb)
               THEN Call("update_ratings", << >>, "OverflowError")
               ELSE Call("update_ratings", UpdateRatings(ra, rb, result), "")
    /\ UNCHANGED <<images, history, played, current_pair, pair_mode_smart, disk, pc>>

\* ImageManager.ranking()
RankingCall ==
    /\ last' = Call("ranking", Ranking(images), "")
    /\ UNCHANGED <<images, history, played, current_pair, pair_mode_smart, disk, pc>>

\* What a pair function returns: (self.images[a], self.images[b]), or None.
PairReturn(imgs, pairs) ==
    IF pairs = {} THEN {<< >>}
    ELSE {<<Get(imgs, p[1]), Get(imgs, p[2])>> : p \in pairs}

\* ImageManager.get_random_pair()
GetRandomPairCall ==
    /\ \E ret \in PairReturn(images, GetRandomPair(images)) :
            last' = Call("get_random_pair", ret, "")
    /\ UNCHANGED <<images, history, played, current_pair, pair_mode_smart, disk, pc>>

\* ImageManager.get_smart_pair()
GetSmartPairCall ==
    /\ \E ret \in PairReturn(images, GetSmartPair(images)) :
            last' = Call("get_smart_pair", ret, "")
    /\ UNCHANGED <<images, history, played, current_pair, pair_mode_smart, disk, pc>>

\* ImageManager.save_to_file(): disk holds the document written and, beside
\* it, the catalog and the history it was written from.
SaveToFile ==
    /\ disk' = [exists |-> TRUE, doc |-> SaveDoc(images, history),
                saved |-> [images |-> images, history |-> history]]
    /\ last' = Call("save_to_file", <<"filename">>, "")
    /\ UNCHANGED <<images, history, played, current_pair, pair_mode_smart, pc>>

\* Session files written by hand rather than by save_to_file.
HandItemA == ImageToJson(ImageRecord("3", "/w/a.png", "a.png", 1))

HandItemB == ImageToJson(ImageRecord("5", "/w/b.png", "b.png", 1))

HandFiles ==
    << \* {}
       [exists |-> TRUE, doc |-> << >>],
       \* no "history" section
       [exists |-> TRUE, doc |-> [images |-> << <<"3", HandItemA>> >>]],
       \* no "images" section
       [exists |-> TRUE, doc |-> [history |-> << >>]],
       \* an item with id, path and name only
       [exists |-> TRUE,
        doc |-> [images |-> << <<"3", [id |-> JsonStr("3"),
                                       path |-> JsonStr("/w/a.png"),
                                       name |-> JsonStr("a.png")]>> >>,
                 history |-> << >>]],
       \* the second item has no id
       [exists |-> TRUE,
        doc |-> [images |-> << <<"5", HandItemB>>,
                               <<"3", [path |-> JsonStr("/w/a.png"),
                                       name |-> JsonStr("a.png")]>> >>,
                 history |-> << >>]],
       \* the entry of the history has no draw
       [exists |-> TRUE,
        doc |-> [images |-> << <<"5", HandItemB>> >>,
                 history |-> << [winner_id |-> JsonNull, loser_id |-> JsonNull,
                                 winner_rating_before |-> JsonNum(DEFAULT_ELO),
                                 loser_rating_before |-> JsonNum(DEFAULT_ELO),
                                 winner_rating_after |-> JsonNum(DEFAULT_ELO),
                                 loser_rating_after |-> JsonNum(DEFAULT_ELO)] >>]]
    >>

\* load_from_file: what it raises, "" when it returns
LoadRaised(file) ==
    IF ~file.exists THEN "FileNotFoundError"
    ELSE IF LoadItemRaises(file.doc) \/ LoadEntryRaises(file.doc) THEN "TypeError"
    ELSE ""

\* load_from_file: what it does to the ImageManager.  Nothing when there is
\* no file; else self.images is rebuilt, then self.history, and a record that
\* cannot be built raises where the code stands.  The pairs of ids behind
\* the entries of a loaded history are not known.
LoadState(file, now) ==
    IF ~file.exists
    THEN UNCHANGED <<images, history, played>>
    ELSE /\ images' = LoadImages(images, file.doc, now)
         /\ IF LoadRaised(file) # ""
            THEN UNCHANGED <<history, played>>
            ELSE /\ history' = LoadHistory(file.doc)
                 /\ played' = [i \in 1..Len(history') |-> {}]

\* ImageManager.load_from_file() of the file
LoadFromFile(file, now) ==
    /\ LoadState(file, now)
    /\ last' = Call("load_from_file", << >>, LoadRaised(file))
    /\ UNCHANGED <<current_pair, pair_mode_smart, disk, pc>>

\* EloVotingApp.ui_reset_ratings(); confirmed is the answer to askyesno
UiResetRatings(confirmed) ==
    IF images = << >> \/ ~confirmed
    THEN /\ last' = Call("ui_reset_ratings", << >>, "")
         /\ UNCHANGED <<images, history, played, current_pair, pair_mode_smart, disk, pc>>
    ELSE /\ images' = ResetRecords(images)
         /\ history' = << >>
         /\ played' = << >>
         /\ current_pair' \in UiNextPair(images', pair_mode_smart)
         /\ last' = Call("ui_reset_ratings", <<"reset">>, "")
         /\ UNCHANGED <<pair_mode_smart, disk, pc>>

\* ui_add_images_copy: the loop over the files; files are the copies that
\* add_image_copy made in the project folder
AddAll(imgs, files, now) ==
    LET F[i \in 0..Len(files)] ==
            IF i = 0 THEN imgs ELSE AddImageImages(F[i - 1], files[i], now)
    IN  F[Len(files)]

\* EloVotingApp.ui_add_images_copy()
UiAddImagesCopy(files, now) ==
    /\ images' = AddAll(images, files, now)
    /\ current_pair' \in UiNextPair(images', pair_mode_smart)
    /\ last' = Call("ui_add_images_copy", << >>, "")
    /\ UNCHANGED <<history, played, pair_mode_smart, disk, pc>>

\* _vote_side: the ids and the result it passes to record_match
VoteArgs(side, vote_type) ==
    LET a == IF side = "left" THEN current_pair[1] ELSE current_pair[2]
        b == IF side = "left" THEN current_pair[2] ELSE current_pair[1]
    IN  CASE vote_type = "win"     -> <<a, b, 1000>>
          [] vote_type = "dislike" -> <<b, a, 1000>>
          [] vote_type = "neutral" -> <<a, b, 500>>

\* EloVotingApp._vote_side(side, vote_type), vote_type one of win, dislike,
\* neutral: nothing without a pair; else record_match on the ids of the pair
\* shown, whose KeyError leaves the handler, and ui_next_pair.
VoteSide(side, vote_type) ==
    IF current_pair = NoPair
    THEN /\ last' = Call("_vote_side", << >>, "")
         /\ UNCHANGED <<images, history, played, current_pair, pair_mode_smart,
                        disk, pc>>
    ELSE LET args == VoteArgs(side, vote_type)
         IN  IF ~Has(images, args[1]) \/ ~Has(images, args[2])
             THEN /\ last' = Call("_vote_side", << >>, "KeyError")
                  /\ UNCHANGED <<images, history, played, current_pair,
                                 pair_mode_smart, disk, pc>>
             ELSE /\ Get(images, args[1]).matches < MaxCount
                  /\ Get(images, args[2]).matches < MaxCount
                  /\ images' = RecordMatchImages(images, args[1], args[2], args[3])
                  /\ history' =
                      PushHistory(history,
                                  RecordMatchEntry(images, args[1], args[2], args[3]))
                  /\ played' = PushHistory(played, {args[1], args[2]})
                  /\ current_pair' \in UiNextPair(images', pair_mode_smart)
                  /\ last' = Call("_vote_side", << >>, "")
                  /\ UNCHANGED <<pair_mode_smart, disk, pc>>

\* EloVotingApp.ui_swap_pair()
UiSwapPair ==
    /\ current_pair' = IF current_pair = NoPair THEN NoPair
                       ELSE <<current_pair[2], current_pair[1]>>
    /\ last' = Call("ui_swap_pair", << >>, "")
    /\ UNCHANGED <<images, history, played, pair_mode_smart, disk, pc>>

\* EloVotingApp.ui_toggle_pair_mode()
UiTogglePairMode ==
    /\ pair_mode_smart' = ~pair_mode_smart
    /\ current_pair' \in UiNextPair(images, pair_mode_smart')
    /\ last' = Call("ui_toggle_pair_mode", << >>, "")
    /\ UNCHANGED <<images, history, played, disk, pc>>

\* EloVotingApp._remove_selected_image(tree): img_id is the id of the row
\* selected in the leaderboard window, confirmed the answer to askyesno
RemoveSelectedImage(img_id, confirmed) ==
    IF ~confirmed
    THEN /\ last' = Call("_remove_selected_image", << >>, "")
         /\ UNCHANGED <<images, history, played, current_pair, pair_mode_smart,
                        disk, pc>>
    ELSE /\ IF Has(images, img_id)
            THEN /\ images' = Del(images, img_id)
                 /\ history' = Purge(history, img_id)
                 /\ played' = Restrict(played, KeptEntries(history, img_id))
            ELSE UNCHANGED <<images, history, played>>
         /\ current_pair' \in UiNextPair(images', pair_mode_smart)
         /\ last' = Call("_remove_selected_image", <<"removed">>, "")
         /\ UNCHANGED <<pair_mode_smart, disk, pc>>

\* EloVotingApp.ui_save_session(), a path chosen
UiSaveSession ==
    /\ disk' = [exists |-> TRUE, doc |-> SaveDoc(images, history),
                saved |-> [images |-> images, history |-> history]]
    /\ last' = Call("ui_save_session", << >>, "")
    /\ UNCHANGED <<images, history, played, current_pair, pair_mode_smart, pc>>

\* EloVotingApp.ui_load_session(), a path chosen: load_from_file, then
\* ui_next_pair; an exception of load_from_file is shown in an error box and
\* the handler returns.
UiLoadSession(file, now) ==
    /\ LoadState(file, now)
    /\ IF LoadRaised(file) = ""
       THEN /\ current_pair' \in UiNextPair(images', pair_mode_smart)
            /\ last' = Call("ui_load_session", << >>, "")
       ELSE /\ current_pair' = current_pair
            /\ last' = Call("ui_load_session", <<"Failed to load">>, "")
    /\ UNCHANGED <<pair_mode_smart, disk, pc>>

Next ==
    \/ \E path \in Paths, exists \in BOOLEAN, now \in Times :
            AddImage(path, exists, now)
    \/ \E image_id \in Ids : RemoveImage(image_id)
    \/ \E a_id \in Ids, b_id \in Ids, result \in Results :
            RecordMatch(a_id, b_id, result)
    \/ RankingCall
    \/ \E confirmed \in BOOLEAN : UiResetRatings(confirmed)

Spec == Init /\ [][Next]_vars

\* ranking() over catalogs of up to four items: the files of RankPaths are
\* added, matches are won and lost between two different items, ranking() is
\* called.
RankNext ==
    \/ \E path \in RankPaths : AddImage(path, TRUE, 1)
    \/ \E a_id \in RankIds, b_id \in RankIds :
            a_id # b_id /\ RecordMatch(a_id, b_id, 1000)
    \/ RankingCall

SpecRanking == Init /\ [][RankNext]_vars

\* The pair functions over catalogs of up to nine items: the files of
\* PairPaths are added in order, the first and the second item play each
\* other, and a pair is asked for.
PairNext ==
    \/ /\ Len(images) < Len(PairPaths)
       /\ AddImage(PairPaths[Len(images) + 1], TRUE, 1)
    \/ \E result \in {1000, 0, 500} :
            /\ 2 <= Len(images)
            /\ RecordMatch(images[1].id, images[2].id, result)
    \/ GetRandomPairCall
    \/ GetSmartPairCall

SpecPairs == Init /\ [][PairNext]_vars

\* Saving and loading: two files are added and play each other; the
\* session is saved; the saved file or a file written by hand is loaded.
StoreNext ==
    \/ \E path \in {"/w/a.png", "/w/b.png"} : AddImage(path, TRUE, 1)
    \/ \E result \in {1000, 500} : RecordMatch("3", "5", result)
    \/ SaveToFile
    \/ LoadFromFile(disk, 2)
    \/ \E k \in 1..Len(HandFiles) : LoadFromFile(HandFiles[k], 2)

SpecStore == Init /\ [][StoreNext]_vars

\* The files one "Add Images" dialog returns.
AppFiles ==
    {<< >>, <<"/w/a.png">>, <<"/w/b.png">>, <<"/w/a.png", "/w/b.png">>}

\* The events of the application window.
AppNext ==
    \/ \E files \in AppFiles : UiAddImagesCopy(files, 1)
    \/ \E side \in {"left", "right"}, vote_type \in {"win", "dislike", "neutral"} :
            VoteSide(side, vote_type)
    \/ UiSwapPair
    \/ UiTogglePairMode
    \/ \E img_id \in {"3", "5"}, confirmed \in BOOLEAN :
            RemoveSelectedImage(img_id, confirmed)
    \/ \E confirmed \in BOOLEAN : UiResetRatings(confirmed)
    \/ UiSaveSession
    \/ UiLoadSession(disk, 2)
    \/ \E k \in 1..Len(HandFiles) : UiLoadSession(HandFiles[k], 2)

SpecApp == Init /\ [][AppNext]_vars

\* The ratings update_ratings is called with: two equal ratings, from far
\* below zero to the end of the float range, and two ratings of the table of
\* Pow10Knots.
EqualRatings ==
    {-200000000, 0, 16000, 984000, 1000000, 1234567, 123000000, 123200000,
     123400000}

TableRatings == {600000, 760000, 920000, 1000000, 1080000, 1240000, 1400000}

EloNext ==
    \/ \E r \in EqualRatings, result \in Results : UpdateRatingsCall(r, r, result)
    \/ \E ra \in TableRatings, rb \in TableRatings, result \in Results :
            UpdateRatingsCall(ra, rb, result)

SpecElo == Init /\ [][EloNext]_vars

\* record_match statement by statement, among the other calls on the same
\* ImageManager: each is started by the event loop.
StepNext ==
    \/ Dispatch /\ \E path \in {"/w/a.png", "/w/b.png"} : AddImage(path, TRUE, 1)
    \/ Dispatch /\ \E image_id \in {"3", "5"} : RemoveImage(image_id)
    \/ Dispatch /\ RankingCall
    \/ Dispatch /\ GetSmartPairCall
    \/ Dispatch /\ UiResetRatings(TRUE)
    \/ Dispatch /\ \E a_id \in {"3", "0"}, result \in {1000, 500} :
            RecordMatchBegin(a_id, "5", result)
    \/ StepStats
    \/ StepMatches
    \/ StepRatings
    \/ StepRecord

SpecSteps == Init /\ [][StepNext]_vars

(***************************************************************************)
(* Properties                                                              *)
(***************************************************************************)
\* The step is a record_match(a_id, b_id, result) that returned.  (Every
\* call leaves its name in last; the properties below look at the steps of
\* the call they are about.)
Recorded(a_id, b_id, result) ==
    /\ last'.raised = ""
    /\ Has(images, a_id)
    /\ Has(images, b_id)
    /\ RecordMatch(a_id, b_id, result)

\* C1: in every reachable state every item of the catalog has non-negative
\* wins, losses, draws and matches, and matches = wins + losses + draws.
CountersConsistent ==
    \A i \in 1..Len(images) :
        /\ images[i].wins >= 0
        /\ images[i].losses >= 0
        /\ images[i].draws >= 0
        /\ images[i].matches >= 0
        /\ images[i].matches = images[i].wins + images[i].losses + images[i].draws

\* C1 witness: a match has just been recorded between two items; one has a
\* win and the other a loss.
CountersConsistentWitness ==
    /\ last.op = "record_match"
    /\ last.raised = ""
    /\ \E i, j \in 1..Len(images) :
        i # j /\ images[i].wins = 1 /\ images[j].losses = 1

\* C2: record_match with a_id or b_id not in the catalog raises KeyError and
\* leaves every item (rating and counters) and the history as they were.
\* Said of a step of record_match: if it returned, it is no call with an id
\* that is not in the catalog; if it raised, it changed nothing.
KeyErrorLeavesState ==
    [][last'.op = "record_match" =>
         /\ last'.raised = "" =>
                \A a_id \in Ids, b_id \in Ids, result \in Results :
                    (~Has(images, a_id) \/ ~Has(images, b_id))
                    => ~RecordMatch(a_id, b_id, result)
         /\ last'.raised # "" =>
                (last'.raised = "KeyError" /\ images' = images
                   /\ history' = history)
      ]_vars

\* C2 witness: the call has just raised KeyError with an item in the
\* catalog and an entry in the history.
KeyErrorWitness ==
    /\ last.op = "record_match"
    /\ last.raised = "KeyError"
    /\ Len(images) = 1
    /\ images[1].matches > 0
    /\ Len(history) > 0

\* What C3 says of a decisive record_match(a_id, b_id, result): the counters
\* of both items and the new head of the history.
DecisiveEffect(a_id, b_id, result) ==
    LET w == IF result = 1000 THEN a_id ELSE b_id
        l == IF result = 1000 THEN b_id ELSE a_id
    IN  /\ Get(images', w).wins = Get(images, w).wins + 1
        /\ Get(images', l).losses = Get(images, l).losses + 1
        /\ \A x \in {a_id, b_id} :
            /\ Get(images', x).matches = Get(images, x).matches + 1
            /\ Get(images', x).draws = Get(images, x).draws
        /\ Head(history').winner_id = w
        /\ Head(history').loser_id = l
        /\ Head(history').draw = FALSE

\* C3, as claimed: after a successful record_match(A, B, 1.0) A.wins and
\* B.losses are one more, after (A, B, 0.0) B.wins and A.losses are one more,
\* matches is one more on A and on B, draws is unchanged, and the head of the
\* history names the winner and the loser with draw = False.
DecisiveMatchAnyPair ==
    [][last'.op = "record_match" =>
         \A a_id \in Ids, b_id \in Ids, result \in {1000, 0} :
            Recorded(a_id, b_id, result) => DecisiveEffect(a_id, b_id, result)
      ]_vars

\* C3, amended: the same for two different items A and B.
DecisiveMatch ==
    [][last'.op = "record_match" =>
         \A a_id \in Ids, b_id \in Ids, result \in {1000, 0} :
            (a_id # b_id /\ Recorded(a_id, b_id, result))
            => DecisiveEffect(a_id, b_id, result)
      ]_vars

\* C3 witness: a decisive match between two items has just been recorded.
DecisiveMatchWitness ==
    /\ last.op = "record_match"
    /\ last.raised = ""
    /\ history # << >>
    /\ Head(history).winner_id # None
    /\ Head(history).winner_id # Head(history).loser_id
    /\ Cardinality(played[1]) = 2

\* What C4 says of record_match(a_id, b_id, 0.5): the counters of both items
\* and the new head of the history.
DrawEffect(a_id, b_id) ==
    /\ \A x \in {a_id, b_id} :
        /\ Get(images', x).draws = Get(images, x).draws + 1
        /\ Get(images', x).matches = Get(images, x).matches + 1
        /\ Get(images', x).wins = Get(images, x).wins
        /\ Get(images', x).losses = Get(images, x).losses
    /\ Head(history').winner_id = None
    /\ Head(history').loser_id = None
    /\ Head(history').draw = TRUE

\* C4, as claimed: after a successful record_match(A, B, 0.5) draws and
\* matches are one more on A and on B, wins and losses are unchanged, and the
\* head of the history has no winner_id, no loser_id and draw = True.
DrawMatchAnyPair ==
    [][last'.op = "record_match" =>
         \A a_id \in Ids, b_id \in Ids :
            Recorded(a_id, b_id, 500) => DrawEffect(a_id, b_id)
      ]_vars

\* C4, amended: the same for two different items A and B.
DrawMatch ==
    [][last'.op = "record_match" =>
         \A a_id \in Ids, b_id \in Ids :
            (a_id # b_id /\ Recorded(a_id, b_id, 500)) => DrawEffect(a_id, b_id)
      ]_vars

\* C4 witness: a draw between two items has just been recorded.
DrawMatchWitness ==
    /\ last.op = "record_match"
    /\ last.raised = ""
    /\ history # << >>
    /\ Head(history).draw
    /\ Cardinality(played[1]) = 2

\* The ids of the catalog.
CatalogIds == {images[i].id : i \in 1..Len(images)}

\* The step is a remove_image(image_id) of an item of the catalog.
Removed(image_id) ==
    /\ last'.op = "remove_image"
    /\ Has(images, image_id)
    /\ RemoveImage(image_id)

\* C5, in every state: a winner_id or loser_id of the history that is not
\* None is the id of an item of the catalog.
HistoryIdsInCatalog ==
    \A i \in 1..Len(history) :
        /\ history[i].winner_id # None => history[i].winner_id \in CatalogIds
        /\ history[i].loser_id # None => history[i].loser_id \in CatalogIds

\* C5, right after remove_image(id): no entry of the history has id as its
\* winner_id or loser_id, and ranking() holds no item with that id.
RemoveLeavesNoReference ==
    \A image_id \in Ids :
        Removed(image_id) =>
            /\ \A i \in 1..Len(history') :
                /\ history'[i].winner_id # image_id
                /\ history'[i].loser_id # image_id
            /\ \A i \in 1..Len(Ranking(images')) :
                Ranking(images')[i].id # image_id

\* C5: every winner_id and loser_id of the history that is not None is the
\* id of an item currently in the catalog; right after remove_image(id) no
\* entry names id and ranking() does not contain it.
NoDanglingIds ==
    /\ []HistoryIdsInCatalog
    /\ [][last'.op = "remove_image" => RemoveLeavesNoReference]_vars

\* C5 witness: an item has just been removed and the decisive match another
\* item won against it is gone from the history.
NoDanglingIdsWitness ==
    /\ last.op = "remove_image"
    /\ history = << >>
    /\ Len(images) = 1
    /\ images[1].wins = 1
    /\ images[1].losses = 0

\* C6, as claimed: after remove_image(id) the history keeps no entry of a
\* match in which id took part, decisive or drawn.
RemovePurgesEveryMatch ==
    [][last'.op = "remove_image" =>
         \A image_id \in Ids :
            Removed(image_id) =>
                \A i \in 1..Len(played') : image_id \notin played'[i]
      ]_vars

\* C7, as claimed: ui_reset_ratings, answered yes, leaves every rating at
\* DEFAULT_ELO, every counter at 0, the same items, and an empty history.
ResetClearsEverything ==
    [][(last'.op = "ui_reset_ratings" /\ UiResetRatings(TRUE)) =>
         /\ Keys(images') = Keys(images)
         /\ \A i \in 1..Len(images') :
            /\ images'[i].rating = DEFAULT_ELO
            /\ images'[i].wins = 0
            /\ images'[i].losses = 0
            /\ images'[i].draws = 0
            /\ images'[i].matches = 0
         /\ history' = << >>
      ]_vars

\* C8, at a successful record_match: the new entry is the head and the
\* entries behind it are the old ones, without the oldest when the history
\* was full.
NewestKept ==
    /\ Len(history') >= 1
    /\ Tail(history') =
        IF Len(history) >= MATCH_HISTORY_LIMIT
        THEN SubSeq(history, 1, MATCH_HISTORY_LIMIT - 1)
        ELSE history

\* C8: the history never holds more than MATCH_HISTORY_LIMIT entries; a
\* record_match that would exceed the limit drops the oldest entry, the last
\* of the list, and keeps every newer one.
HistoryBounded ==
    /\ [](Len(history) <= MATCH_HISTORY_LIMIT)
    /\ [][(last'.op = "record_match" /\ last'.raised = "") => NewestKept]_vars

\* C8 witness: a match has just been recorded and the history is full.
HistoryBoundedWitness ==
    /\ last.op = "record_match"
    /\ last.raised = ""
    /\ Len(history) = MATCH_HISTORY_LIMIT
    /\ history[1] # history[MATCH_HISTORY_LIMIT]

\* C9 at add_image(path) of a file that exists.  An unchanged catalog is
\* unchanged in the number of its items and in every field of every item:
\* rating, counters, name and added_at.
RegisterEffect(path) ==
    LET uid == MakeId(path)
    IN  IF Has(images, uid)
        THEN /\ last'.ret = <<Get(images, uid)>>
             /\ images' = images
             /\ history' = history
        ELSE /\ Len(images') = Len(images) + 1
             /\ SubSeq(images', 1, Len(images)) = images
             /\ images'[Len(images')].id = uid
             /\ images'[Len(images')].rating = DEFAULT_ELO
             /\ images'[Len(images')].wins = 0
             /\ images'[Len(images')].losses = 0
             /\ images'[Len(images')].draws = 0
             /\ images'[Len(images')].matches = 0
             /\ last'.ret = <<images'[Len(images')]>>
             /\ history' = history

\* C9: add_image of a path whose id is in the catalog returns the item that
\* is there, leaves its rating, counters, name and added_at, the number of
\* items and the history unchanged; add_image of a new path inserts exactly
\* one item with rating DEFAULT_ELO and all counters 0.
RegisterIdempotent ==
    [][(last'.op = "add_image" /\ last'.ret # << >>) =>
         \A path \in Paths, now \in Times :
            AddImage(path, TRUE, now) => RegisterEffect(path)
      ]_vars

\* C9 witness: add_image has just returned an item that had already played.
RegisterIdempotentWitness ==
    /\ last.op = "add_image"
    /\ last.ret # << >>
    /\ last.ret[1].matches > 0
    /\ history # << >>

\* C10, in the state ranking() returns in: the list holds every item of the
\* catalog exactly once, by rating descending, and items of equal rating in
\* the order of the catalog.
RankingSorted ==
    last.op = "ranking" =>
        /\ Len(last.ret) = Len(images)
        /\ \A i \in 1..Len(images) :
            Cardinality({j \in 1..Len(last.ret) : last.ret[j] = images[i]}) = 1
        /\ \A j, k \in 1..Len(last.ret) :
            j < k =>
                /\ last.ret[j].rating >= last.ret[k].rating
                /\ last.ret[j].rating = last.ret[k].rating =>
                       IndexOf(images, last.ret[j].id) < IndexOf(images, last.ret[k].id)

\* C10: ranking() returns every item exactly once, by rating descending, ties
\* in insertion order, and changes neither the catalog nor the history.
RankingStable ==
    /\ []RankingSorted
    /\ [][last'.op = "ranking" => (images' = images /\ history' = history)]_vars

\* C10 witness: ranking() has just returned for a catalog of at least three
\* items in which two items tie and a later item outrates an earlier one.
RankingStableWitness ==
    /\ last.op = "ranking"
    /\ Len(images) >= 3
    /\ \E i, j \in 1..Len(images) :
        i < j /\ images[i].rating = images[j].rating
    /\ \E i, j \in 1..Len(images) :
        i < j /\ images[i].rating < images[j].rating

\* C11: get_random_pair and get_smart_pair return None, without raising,
\* when the catalog holds fewer than 2 items; with 2 or more items they
\* return two different items that are both in the catalog.
PairOrNone ==
    last.op \in {"get_random_pair", "get_smart_pair"} =>
        /\ last.raised = ""
        /\ IF Len(images) < 2 THEN last.ret = << >>
           ELSE /\ Len(last.ret) = 2
                /\ last.ret[1].id # last.ret[2].id
                /\ \A k \in 1..2 : \E i \in 1..Len(images) : images[i] = last.ret[k]

\* C11 witness: get_random_pair has just returned a pair from a catalog of
\* three items.
PairOrNoneWitness ==
    /\ last.op = "get_random_pair"
    /\ Len(images) = 3
    /\ last.ret # << >>

\* The items of the catalog, other than the anchor a, whose rating is
\* strictly closer to a's than the rating of b is.
StrictlyCloser(a, b) ==
    {i \in 1..Len(images) :
        /\ images[i].id # a.id
        /\ Abs(images[i].rating - a.rating) < Abs(b.rating - a.rating)}

\* C12: for every pair (A, B) get_smart_pair returns, fewer than 6 other
\* items are strictly closer to A in rating than B is; an item with at least
\* 6 other items strictly closer to the anchor is never its partner.
SmartPartnerClose ==
    (last.op = "get_smart_pair" /\ last.ret # << >>) =>
        Cardinality(StrictlyCloser(last.ret[1], last.ret[2])) < TOP_K

\* C12 witness: get_smart_pair has just returned a pair whose anchor has an
\* item in the catalog with 6 or more other items strictly closer.
SmartPartnerCloseWitness ==
    /\ last.op = "get_smart_pair"
    /\ last.ret # << >>
    /\ \E i \in 1..Len(images) :
        /\ images[i].id # last.ret[1].id
        /\ Cardinality(StrictlyCloser(last.ret[1], images[i])) >= TOP_K

\* C13: load_from_file of the file save_to_file wrote leaves the catalog
\* with the ids the saved catalog had, in the same order, each item with the
\* saved rating and counters, and the history with the saved entries in the
\* same order, whatever the catalog and the history were before the load.
RoundTrip ==
    [][(last'.op = "load_from_file" /\ disk.exists /\ LoadFromFile(disk, 2)) =>
         /\ last'.raised = ""
         /\ Keys(images') = Keys(disk.saved.images)
         /\ \A i \in 1..Len(images') :
            /\ images'[i].rating = disk.saved.images[i].rating
            /\ images'[i].wins = disk.saved.images[i].wins
            /\ images'[i].losses = disk.saved.images[i].losses
            /\ images'[i].draws = disk.saved.images[i].draws
            /\ images'[i].matches = disk.saved.images[i].matches
         /\ history' = disk.saved.history
      ]_vars

\* C13 witness: the saved file has just been loaded; it holds two items and
\* their drawn match, whose winner_id and loser_id are None.
RoundTripWitness ==
    /\ last.op = "load_from_file"
    /\ last.raised = ""
    /\ disk.exists
    /\ Len(images) = 2
    /\ images = disk.saved.images
    /\ images[1].draws = 1
    /\ Len(history) = 1
    /\ history = disk.saved.history
    /\ history[1].winner_id = None

\* The document lacks a required part: a section, a field of an item or a
\* field of an entry of the history.
Incomplete(doc) ==
    \/ "images" \notin DOMAIN doc
    \/ "history" \notin DOMAIN doc
    \/ \E i \in 1..Len(Section(doc, "images", << >>)) :
            ~(ImageFields \subseteq DOMAIN doc.images[i][2])
    \/ \E i \in 1..Len(Section(doc, "history", << >>)) :
            ~(MatchFields \subseteq DOMAIN doc.history[i])

\* C14, as claimed: load_from_file raises on every document that lacks the
\* "images" or the "history" section, or a field of an item (rating, wins,
\* losses, draws and matches among them) or of an entry of the history.
LoadRejectsIncomplete ==
    [][last'.op = "load_from_file" =>
         \A k \in 1..Len(HandFiles) :
            (Incomplete(HandFiles[k].doc) /\ LoadFromFile(HandFiles[k], 2))
            => last'.raised # ""
      ]_vars

\* C19, as claimed: a load_from_file that raises leaves the catalog and the
\* history as they were.
FailedLoadLeavesState ==
    [][(last'.op = "load_from_file" /\ last'.raised # "") =>
         (images' = images /\ history' = history)
      ]_vars

\* What ranking() or get_smart_pair() returned shows no item whose counters
\* have been raised without its matches, or the other way round.
ObservedWhole ==
    last.op \in {"ranking", "get_smart_pair"} =>
        \A k \in 1..Len(last.ret) :
            last.ret[k].matches =
                last.ret[k].wins + last.ret[k].losses + last.ret[k].draws

\* The record_match that returns leaves what the whole call makes of the
\* catalog and the history it started from: counters, ratings and entry.
AppliedWhole ==
    (pc.at = "record" /\ pc' = Idle) =>
        /\ images' = RecordMatchImages(pc.images0, pc.a_id, pc.b_id, pc.result)
        /\ history' =
            PushHistory(pc.history0,
                        RecordMatchEntry(pc.images0, pc.a_id, pc.b_id, pc.result))

EqualRatingsEffect(r, result) ==
    /\ last'.raised = ""
    /\ last'.ret =
        CASE result = 1000 -> <<r + 16000, r - 16000>>
          [] result = 0    -> <<r - 16000, r + 16000>>
          [] result = 500  -> <<r, r>>

\* C16, as claimed: for every rating r, update_ratings(r, r, 1.0) returns
\* (r + 16, r - 16), update_ratings(r, r, 0.0) returns (r - 16, r + 16) and
\* update_ratings(r, r, 0.5) returns (r, r).
EqualRatingsMove ==
    [][last'.op = "update_ratings" =>
         \A r \in EqualRatings, result \in {1000, 0, 500} :
            UpdateRatingsCall(r, r, result) => EqualRatingsEffect(r, result)
      ]_vars

\* C16 for the ratings at which qa + qb is finite: there the call returns
\* what the claim says, (1016, 984) and (1000, 1000) at r = 1000 included.
EqualRatingsMoveInRange ==
    [][last'.op = "update_ratings" =>
         \A r \in EqualRatings, result \in {1000, 0, 500} :
            (r <= SUM_INF_ABOVE /\ UpdateRatingsCall(r, r, result))
            => EqualRatingsEffect(r, result)
      ]_vars

\* What C17 says of the entry of a successful record_match(a_id, b_id,
\* result): the winner is A unless B won, and at a draw the winner fields are
\* A's and the loser fields are B's.
EntryRatingsEffect(a_id, b_id, result) ==
    LET w == IF result = 0 THEN b_id ELSE a_id
        l == IF result = 0 THEN a_id ELSE b_id
        e == Head(history')
    IN  /\ e.winner_rating_before = Get(images, w).rating
        /\ e.loser_rating_before = Get(images, l).rating
        /\ e.winner_rating_after = Get(images', w).rating
        /\ e.loser_rating_after = Get(images', l).rating

DrawFlagMatchesIds ==
    \A i \in 1..Len(history) :
        /\ history[i].draw <=>
               (history[i].winner_id = None /\ history[i].loser_id = None)
        /\ ~history[i].draw <=>
               (history[i].winner_id # None /\ history[i].loser_id # None)

\* C20, as claimed: after any sequence of events of the application
\* current_pair is None or holds two different items whose ids are both in
\* the catalog, so that a vote on the pair shown never ends in KeyError.
CurrentPairValid ==
    /\ current_pair # NoPair =>
           /\ current_pair[1] # current_pair[2]
           /\ Has(images, current_pair[1])
           /\ Has(images, current_pair[2])
    /\ last.op = "_vote_side" => last.raised # "KeyError"

====
